---- MODULE Spec2Model ----
(***************************************************************************)
(* Model of the EFA completion-queue provider, prov/efa/src/efa_cq.c:      *)
(* the read loop efa_cq_readfrom, the error reporter efa_cq_readerr, the   *)
(* spin lock that serialises them, and the extended verbs poll protocol    *)
(* (ibv_start_poll / ibv_next_poll / ibv_end_poll) they drive.             *)
(*                                                                         *)
(* The hardware ring is the environment.  It is modelled the way rdma-core *)
(* implements it for EFA: ibv_start_poll and ibv_next_poll take the oldest *)
(* unconsumed completion off the ring and load it into the fields of the   *)
(* ibv_cq_ex (status, wr_id, opcode, byte_len); these fields keep their    *)
(* value until the next successful start/next (they are "sticky").         *)
(***************************************************************************)
EXTENDS Integers, Sequences, FiniteSets, TLC

(* errno / fi_errno values used by the code *)
ENOENT == 2
EIO == 5
EINVAL == 22
EAGAIN == 11
FI_EAGAIN == 11
FI_EAVAIL == 259
FI_ENOSYS == 38
FI_ENOMEM == 12
FI_EINVAL == 22
EBUSY == 16
(* the ring size used when attr->size is 0 *)
EFA_DEF_CQ_SIZE == 1024
(* sizeof(struct fi_cq_err_entry), the success value of efa_cq_readerr *)
SizeofErrEntry == 80
(* a non-zero ibv_wc_status (IBV_WC_SUCCESS is 0) *)
IBV_WC_GENERAL_ERR == 21

(* bounds of the model *)
MaxProduced == 2
MaxCount == 2

Threads == {"t1", "t2"}
NoThread == "none"

Formats == {"FI_CQ_FORMAT_CONTEXT", "FI_CQ_FORMAT_MSG", "FI_CQ_FORMAT_DATA"}

(* the completions the hardware may post: status, opcode, byte_len, the    *)
(* peer they came from (slid, src_qp) and the immediate data               *)
WcInputs ==
    { [status |-> 0, opcode |-> "IBV_WC_SEND", byte_len |-> 0,
       slid |-> 1, src_qp |-> 1, imm_data |-> 0],
      [status |-> 0, opcode |-> "IBV_WC_RECV", byte_len |-> 64,
       slid |-> 2, src_qp |-> 7, imm_data |-> 9],
      [status |-> IBV_WC_GENERAL_ERR, opcode |-> "IBV_WC_SEND", byte_len |-> 0,
       slid |-> 1, src_qp |-> 1, imm_data |-> 0] }

(* the address vector: the peers it knows, by (slid, src_qp) *)
AvPeers == { << 1, 1 >> }

Unwritten == [unwritten |-> TRUE]
NoWc == [wr_id |-> 0, status |-> 0, opcode |-> "NONE", byte_len |-> 0,
         slid |-> 0, src_qp |-> 0, imm_data |-> 0]
NoErr == [wr_id |-> 0, status |-> 0, after |-> 0]
NoPolls == [starts |-> 0, started |-> FALSE, ends |-> 0, start_ret |-> 0, raw |-> 0,
            lookups |-> 0, peers |-> << >>, iters |-> 0]

(* codes with which ibv_start_poll / ibv_next_poll may report a ring fault: *)
(* positive errno values other than ENOENT                                 *)
RingFaults == {EINVAL, EAGAIN}

(* the resources of a queue, in the order efa_cq_open acquires them *)
Resources == << "cq", "util_cq", "ibv_cq", "wce_pool", "lock" >>

(* the queue object after a successful efa_cq_open that bound layout f *)
Constructed(f) ==
    [pc |-> "opened", wait_obj |-> "FI_WAIT_NONE", format |-> f, size |-> 0,
     held |-> Resources, released |-> << >>, published |-> TRUE,
     cqe |-> EFA_DEF_CQ_SIZE, ret |-> 0, failed |-> "none"]

VARIABLES
    ring,            \* hardware ring: completions not yet consumed, oldest first
    cq,              \* cq->ibv_cq_ex: sticky fields of the completion under the cursor
    polling,         \* a poll session is open (between start_poll and end_poll)
    lock,            \* cq->lock: the thread holding it, or NoThread
    format,          \* layout bound at open (selects cq->read_entry)
    api_ge_1_5,      \* FI_VERSION_GE(api_version, FI_VERSION(1, 5))
    life,            \* the queue object: where efa_cq_open / efa_cq_close stand,
                     \* the resources held and released, the value returned
    produced,        \* number of completions the hardware has posted so far
    pc,              \* per thread: position in its current call
    op,              \* per thread: the call it is in / has last returned from
    count,           \* per thread: efa_cq_readfrom's count argument
    num_cqe,         \* per thread: local num_cqe
    err,             \* per thread: local err
    should_end_poll, \* per thread: local should_end_poll
    wc,              \* per thread: local wc
    buf,             \* per thread: the caller's output buffer, index -> entry
    src_addr_given,  \* per thread: efa_cq_readfrom's src_addr argument is not NULL
    src_addr,        \* per thread: the caller's address buffer, index -> fi_addr_t
    entry,           \* per thread: the caller's error record (efa_cq_readerr)
    delivered,       \* history: completions written to any buffer, in order
    ring0,           \* history, per call: the ring when the call started polling
    yielded,         \* history, per call: completions the cursor moved onto
    faulted,         \* history, per call: start/next returned a ring fault
    grew,            \* history, per call: hardware posted while the call polled
    polls,           \* history, per call: ibv_start_poll / ibv_end_poll calls made,
                     \*          address lookups made, peers of the entries written,
                     \*          iterations of the loop body
    pendingErr,      \* history: errored completion the last read stopped at, and
                     \*          the number of entries that read had written
    unreported,      \* history: errored wr_id a read stopped at, no readerr since
    totalRead,       \* history: sum of the positive counts efa_cq_readfrom returned
    lastErrEntry     \* history: record the last successful readerr returned,
                     \*          forgotten when a read starts polling

vars == << ring, cq, polling, lock, format, api_ge_1_5, life, produced,
           pc, op, count, num_cqe, err, should_end_poll, wc, buf,
           src_addr_given, src_addr, entry, delivered, ring0, yielded, faulted, grew, polls, pendingErr,
           unreported, totalRead, lastErrEntry >>

hwVars == << ring, cq, polling, produced >>
cfgVars == << format, api_ge_1_5, life >>
rfLocals == << count, num_cqe, err, should_end_poll, wc, buf, src_addr_given,
              src_addr >>
callHist == << ring0, yielded, faulted, grew, polls >>
histVars == << delivered, callHist, pendingErr, unreported, totalRead, lastErrEntry >>

Min(a, b) == IF a < b THEN a ELSE b

BufIndex == 0 .. MaxCount
EmptyBuf == [i \in BufIndex |-> Unwritten]
EmptyAddrs == [i \in BufIndex |-> "unwritten"]

----------------------------------------------------------------------------
(* Pure functions of efa_cq.c *)

efa_cq_opcode_to_fi_flags(opcode) ==
    CASE opcode = "IBV_WC_SEND" -> {"FI_SEND", "FI_MSG"}
      [] opcode = "IBV_WC_RECV" -> {"FI_RECV", "FI_MSG"}
      [] OTHER -> {}

efa_cq_wc_from_ibv_cq_ex_unsafe(c) ==
    [wr_id |-> c.wr_id, status |-> c.status, opcode |-> c.opcode,
     byte_len |-> c.byte_len, slid |-> c.slid, src_qp |-> c.src_qp,
     imm_data |-> c.imm_data]

efa_cq_read_context_entry(w, i, b) ==
    [b EXCEPT ![i] = [op_context |-> w.wr_id]]

efa_cq_read_msg_entry(w, i, b) ==
    [b EXCEPT ![i] = [op_context |-> w.wr_id,
                      flags |-> efa_cq_opcode_to_fi_flags(w.opcode),
                      len |-> w.byte_len]]

efa_cq_read_data_entry(w, i, b) ==
    [b EXCEPT ![i] = [op_context |-> w.wr_id,
                      flags |-> efa_cq_opcode_to_fi_flags(w.opcode),
                      data |-> 0,
                      len |-> w.byte_len]]

(* variant: every entry is written at index 0 *)
read_entry_at_zero(w, i, b) ==
    CASE format = "FI_CQ_FORMAT_CONTEXT" -> efa_cq_read_context_entry(w, 0, b)
      [] format = "FI_CQ_FORMAT_MSG" -> efa_cq_read_msg_entry(w, 0, b)
      [] format = "FI_CQ_FORMAT_DATA" -> efa_cq_read_data_entry(w, 0, b)

(* cq->read_entry, bound to one of the three formatters at open (lines 329-342) *)
read_entry(w, i, b) ==
    CASE format = "FI_CQ_FORMAT_CONTEXT" -> efa_cq_read_context_entry(w, i, b)
      [] format = "FI_CQ_FORMAT_MSG" -> efa_cq_read_msg_entry(w, i, b)
      [] format = "FI_CQ_FORMAT_DATA" -> efa_cq_read_data_entry(w, i, b)

(* variant: positive codes are returned as they are *)
poll_error_not_negated(e) ==
    IF e = ENOENT THEN -FI_EAGAIN ELSE e

(* variant: the ENOENT special case is missing *)
poll_error_without_enoent(e) ==
    IF e > 0 THEN -e ELSE e

efa_cq_ibv_poll_error_to_fi_error(e) ==
    IF e = ENOENT THEN -FI_EAGAIN
    ELSE IF e > 0 THEN -e
    ELSE e

(* efa_av_reverse_lookup_dgram(av, slid, src_qp): the fabric address of a   *)
(* known peer, FI_ADDR_NOTAVAIL for an unknown one                         *)
efa_av_reverse_lookup_dgram(slid, src_qp) ==
    IF << slid, src_qp >> \in AvPeers THEN "fi_addr_of_known_peer"
    ELSE "FI_ADDR_NOTAVAIL"

(* variant: the address is looked up whether or not a buffer was given *)
SrcAddrRequested_always(given) == TRUE

(* line 189: if (src_addr) *)
SrcAddrRequested(given) == given

(* variant: the loop runs one iteration too many *)
LoopCond_off_by_one(e, n, c) == e = 0 /\ n <= c

(* line 181: the loop condition *)
LoopCond(e, n, c) == e = 0 /\ n < c

(* variant: the status of the completion is not looked at *)
StatusIsError_ignored(s) == FALSE

(* line 184: the cursor's completion is in error state *)
StatusIsError(s) == s # 0

(* variant: a recorded error wins over the entries already written *)
ReadfromReturn_error_first(n, e) == IF e # 0 THEN e ELSE n

(* line 211 *)
ReadfromReturn(n, e) == IF n # 0 THEN n ELSE e

(* variant: the test of the sticky status is missing *)
NoErrorPending_never(s) == FALSE

(* line 90: !cq->ibv_cq_ex->status *)
NoErrorPending(s) == s = 0

(* variant: prov_errno carries the fabric error code instead of the status *)
ErrEntry_wrong_errno(c) ==
    [op_context |-> c.wr_id,
     flags |-> efa_cq_opcode_to_fi_flags(c.opcode),
     err |-> EIO,
     prov_errno |-> EIO]

(* lines 95-98: the error record efa_cq_readerr fills in under the lock *)
ErrEntry(c) ==
    [op_context |-> c.wr_id,
     flags |-> efa_cq_opcode_to_fi_flags(c.opcode),
     err |-> EIO,
     prov_errno |-> c.status]

(* variant: the session is ended whether or not it was started *)
ShouldEndPoll_always(e) == TRUE

(* line 179: should_end_poll = !err *)
ShouldEndPoll(e) == e = 0

(* variant: the lock does not exclude *)
SpinLockFree_always == TRUE

(* ofi_spin_lock returns only once the lock is free *)
SpinLockFree == lock = NoThread

----------------------------------------------------------------------------
(* line 211: the value efa_cq_readfrom returns, from the locals as they    *)
(* stand once the loop and the translation are done                        *)
readfrom_ret(t) == ReadfromReturn(num_cqe[t], err[t])

(* lines 107 and 110: the value efa_cq_readerr returns *)
readerr_ret(t) == IF pc[t] = "re_out" THEN SizeofErrEntry ELSE -FI_EAGAIN

(* lines 104-105: err_data_size is set only for API version >= 1.5 *)
WithErrDataSize(e) ==
    IF api_ge_1_5
    THEN [op_context |-> e.op_context, flags |-> e.flags, err |-> e.err,
          prov_errno |-> e.prov_errno, err_data_size |-> 0]
    ELSE e

----------------------------------------------------------------------------
Init ==
    /\ ring = << >>
    /\ cq = NoWc
    /\ polling = FALSE
    /\ lock = NoThread
    /\ format \in Formats
    /\ api_ge_1_5 \in BOOLEAN
    /\ life = Constructed(format)
    /\ produced = 0
    /\ pc = [t \in Threads |-> "idle"]
    /\ op = [t \in Threads |-> "none"]
    /\ count = [t \in Threads |-> 0]
    /\ num_cqe = [t \in Threads |-> 0]
    /\ err = [t \in Threads |-> 0]
    /\ should_end_poll = [t \in Threads |-> FALSE]
    /\ wc = [t \in Threads |-> NoWc]
    /\ buf = [t \in Threads |-> EmptyBuf]
    /\ src_addr_given = [t \in Threads |-> FALSE]
    /\ src_addr = [t \in Threads |-> EmptyAddrs]
    /\ entry = [t \in Threads |-> Unwritten]
    /\ delivered = << >>
    /\ ring0 = [t \in Threads |-> << >>]
    /\ yielded = [t \in Threads |-> << >>]
    /\ faulted = [t \in Threads |-> FALSE]
    /\ grew = [t \in Threads |-> FALSE]
    /\ polls = [t \in Threads |-> NoPolls]
    /\ pendingErr = NoErr
    /\ unreported = 0
    /\ totalRead = 0
    /\ lastErrEntry = Unwritten

(* A call returns: its stack frame (and the model's record of the call) is *)
(* gone and the thread is free to make its next call.                      *)
Leave(t) ==
    /\ pc' = [pc EXCEPT ![t] = "idle"]
    /\ op' = [op EXCEPT ![t] = "none"]
    /\ count' = [count EXCEPT ![t] = 0]
    /\ num_cqe' = [num_cqe EXCEPT ![t] = 0]
    /\ err' = [err EXCEPT ![t] = 0]
    /\ should_end_poll' = [should_end_poll EXCEPT ![t] = FALSE]
    /\ wc' = [wc EXCEPT ![t] = NoWc]
    /\ buf' = [buf EXCEPT ![t] = EmptyBuf]
    /\ src_addr_given' = [src_addr_given EXCEPT ![t] = FALSE]
    /\ src_addr' = [src_addr EXCEPT ![t] = EmptyAddrs]
    /\ entry' = [entry EXCEPT ![t] = Unwritten]
    /\ ring0' = [ring0 EXCEPT ![t] = << >>]
    /\ yielded' = [yielded EXCEPT ![t] = << >>]
    /\ faulted' = [faulted EXCEPT ![t] = FALSE]
    /\ grew' = [grew EXCEPT ![t] = FALSE]
    /\ polls' = [polls EXCEPT ![t] = NoPolls]

(* The hardware posts a completion; work-request ids are 1, 2, 3, ... in   *)
(* the order the ring produces them.                                       *)
Produce ==
    /\ produced < MaxProduced
    /\ \E k \in WcInputs :
          ring' = Append(ring, [wr_id |-> produced + 1, status |-> k.status,
                                opcode |-> k.opcode, byte_len |-> k.byte_len,
                                slid |-> k.slid, src_qp |-> k.src_qp,
                                imm_data |-> k.imm_data])
    /\ produced' = produced + 1
    /\ grew' = [t \in Threads |->
                  IF pc[t] \in {"rf_loop", "rf_next"} THEN TRUE ELSE grew[t]]
    /\ UNCHANGED << cq, polling, lock, cfgVars, pc, op, rfLocals, entry,
                    delivered, ring0, yielded, faulted, polls, pendingErr,
                    unreported, totalRead, lastErrEntry >>

(* A thread enters efa_cq_readfrom(cq, buf, count, src_addr): lines        *)
(* 161-173.  The code does not look at count and src_addr before it holds  *)
(* the lock; the model draws them when the lock is taken.                  *)
CallReadfrom(t) ==
    /\ pc[t] = "idle"
    /\ pc' = [pc EXCEPT ![t] = "rf_lock"]
    /\ op' = [op EXCEPT ![t] = "readfrom"]
    /\ UNCHANGED << hwVars, lock, cfgVars, rfLocals, entry, histVars >>

(* A thread enters efa_cq_readerr(cq, entry, flags): lines 83-86 *)
CallReaderr(t) ==
    /\ pc[t] = "idle"
    /\ pc' = [pc EXCEPT ![t] = "re_lock"]
    /\ op' = [op EXCEPT ![t] = "readerr"]
    /\ UNCHANGED << hwVars, lock, cfgVars, rfLocals, entry, histVars >>

(* ofi_spin_lock(&cq->lock): line 175 (readfrom) and line 88 (readerr) *)
Lock(t) ==
    /\ pc[t] \in {"rf_lock", "re_lock"}
    /\ SpinLockFree
    /\ lock' = t
    /\ IF pc[t] = "rf_lock"
       THEN /\ pc' = [pc EXCEPT ![t] = "rf_start"]
            /\ \E c \in 0 .. MaxCount : count' = [count EXCEPT ![t] = c]
            /\ \E g \in BOOLEAN :
                  src_addr_given' = [src_addr_given EXCEPT ![t] = g]
       ELSE /\ pc' = [pc EXCEPT ![t] = "re_body"]
            /\ UNCHANGED << count, src_addr_given >>
    /\ UNCHANGED << hwVars, cfgVars, op, num_cqe, err, should_end_poll, wc, buf,
                    src_addr, entry, histVars >>

(* The outcome of ibv_start_poll / ibv_next_poll: 0 with the cursor on the *)
(* oldest unconsumed completion, ENOENT on an empty ring, or a ring fault  *)
(* (a positive errno other than ENOENT), which can strike at any poll and  *)
(* leaves ring and cursor as they were.                                    *)
PollOutcome(t, e) ==
    \/ /\ ring # << >>
       /\ e = 0
       /\ cq' = Head(ring)
       /\ ring' = Tail(ring)
       /\ yielded' = [yielded EXCEPT ![t] = Append(@, Head(ring).wr_id)]
       /\ UNCHANGED faulted
    \/ /\ ring = << >>
       /\ e = ENOENT
       /\ UNCHANGED << cq, ring, yielded, faulted >>
    \/ /\ e \in RingFaults
       /\ faulted' = [faulted EXCEPT ![t] = TRUE]
       /\ UNCHANGED << cq, ring, yielded >>

(* lines 178-179: err = ibv_start_poll(...); should_end_poll = !err *)
StartPoll(t) ==
    /\ pc[t] = "rf_start"
    /\ \E e \in {0, ENOENT} \cup RingFaults :
          /\ PollOutcome(t, e)
          /\ err' = [err EXCEPT ![t] = e]
          /\ should_end_poll' = [should_end_poll EXCEPT ![t] = ShouldEndPoll(e)]
          /\ polling' = IF e = 0 THEN TRUE ELSE polling
          /\ polls' = [polls EXCEPT ![t].starts = @ + 1, ![t].started = (e = 0),
                                    ![t].start_ret = e]
    /\ ring0' = [ring0 EXCEPT ![t] = ring]
    /\ pendingErr' = NoErr
    /\ lastErrEntry' = Unwritten
    /\ pc' = [pc EXCEPT ![t] = "rf_loop"]
    /\ UNCHANGED << produced, lock, cfgVars, op, count, num_cqe, wc, buf,
                    src_addr_given, src_addr, entry,
                    delivered, grew, unreported, totalRead >>

(* lines 181-199: loop test, copy of the completion, status check, format *)
LoopStep(t) ==
    /\ pc[t] = "rf_loop"
    /\ IF LoopCond(err[t], num_cqe[t], count[t])
       THEN /\ wc' = [wc EXCEPT ![t] = efa_cq_wc_from_ibv_cq_ex_unsafe(cq)]
            /\ IF StatusIsError(cq.status)
               THEN /\ err' = [err EXCEPT ![t] = -FI_EAVAIL]
                    /\ pc' = [pc EXCEPT ![t] = "rf_finish"]
                    /\ pendingErr' = [wr_id |-> cq.wr_id, status |-> cq.status,
                                    after |-> num_cqe[t]]
                    /\ unreported' = cq.wr_id
                    /\ polls' = [polls EXCEPT ![t].iters = @ + 1]
                    /\ UNCHANGED << buf, num_cqe, delivered, src_addr >>
               ELSE /\ IF SrcAddrRequested(src_addr_given[t])
                       THEN /\ src_addr' = [src_addr EXCEPT ![t][num_cqe[t]] =
                                   efa_av_reverse_lookup_dgram(wc'[t].slid,
                                                               wc'[t].src_qp)]
                            /\ polls' = [polls EXCEPT
                                   ![t].iters = @ + 1,
                                   ![t].lookups = @ + 1,
                                   ![t].peers = Append(@, << cq.slid, cq.src_qp >>)]
                       ELSE /\ polls' = [polls EXCEPT
                                   ![t].iters = @ + 1,
                                   ![t].peers = Append(@, << cq.slid, cq.src_qp >>)]
                            /\ UNCHANGED src_addr
                    /\ buf' = [buf EXCEPT ![t] = read_entry(wc'[t], num_cqe[t], @)]
                    /\ num_cqe' = [num_cqe EXCEPT ![t] = @ + 1]
                    /\ delivered' = Append(delivered,
                                       [wr_id |-> wc'[t].wr_id,
                                        status |-> wc'[t].status])
                    /\ pc' = [pc EXCEPT ![t] = "rf_next"]
                    /\ UNCHANGED << err, pendingErr, unreported >>
       ELSE /\ pc' = [pc EXCEPT ![t] = "rf_finish"]
            /\ UNCHANGED << wc, err, buf, num_cqe, delivered, pendingErr,
                            unreported, src_addr, polls >>
    /\ UNCHANGED << hwVars, lock, cfgVars, op, count, should_end_poll,
                    src_addr_given, entry, ring0, yielded, faulted, grew,
                    totalRead, lastErrEntry >>

(* line 201: err = ibv_next_poll(cq->ibv_cq_ex) *)
NextPoll(t) ==
    /\ pc[t] = "rf_next"
    /\ \E e \in {0, ENOENT} \cup RingFaults :
          /\ PollOutcome(t, e)
          /\ err' = [err EXCEPT ![t] = e]
    /\ pc' = [pc EXCEPT ![t] = "rf_loop"]
    /\ UNCHANGED << polling, produced, lock, cfgVars, op, count, num_cqe,
                    should_end_poll, wc, buf, src_addr_given, src_addr, entry,
                    delivered, ring0, grew, polls,
                    pendingErr, unreported, totalRead, lastErrEntry >>

(* lines 204-207: translate the code, end the poll session if one is open *)
Finish(t) ==
    /\ pc[t] = "rf_finish"
    /\ err' = [err EXCEPT ![t] = efa_cq_ibv_poll_error_to_fi_error(@)]
    /\ polling' = IF should_end_poll[t] THEN FALSE ELSE polling
    /\ polls' = [polls EXCEPT ![t].ends = IF should_end_poll[t] THEN @ + 1 ELSE @,
                              ![t].raw = err[t]]
    /\ pc' = [pc EXCEPT ![t] = "rf_unlock"]
    /\ UNCHANGED << ring, cq, produced, lock, cfgVars, op, count, num_cqe,
                    should_end_poll, wc, buf, src_addr_given, src_addr, entry,
                    delivered, ring0, yielded,
                    faulted, grew, pendingErr, unreported, totalRead,
                    lastErrEntry >>

(* lines 209-211: ofi_spin_unlock; return num_cqe ? num_cqe : err *)
UnlockReturn(t) ==
    /\ pc[t] = "rf_unlock"
    /\ lock' = NoThread
    /\ totalRead' = totalRead + (IF readfrom_ret(t) > 0 THEN readfrom_ret(t) ELSE 0)
    /\ Leave(t)
    /\ UNCHANGED << hwVars, cfgVars, delivered, pendingErr, unreported,
                    lastErrEntry >>

(* variant: reporting the error clears the ring's sticky status *)
ReaderrBody_clears(t) ==
    /\ pc[t] = "re_body"
    /\ unreported' = 0
    /\ IF NoErrorPending(cq.status)
       THEN /\ pc' = [pc EXCEPT ![t] = "re_err"]
            /\ UNCHANGED << entry, cq >>
       ELSE /\ entry' = [entry EXCEPT ![t] = ErrEntry(cq)]
            /\ cq' = [cq EXCEPT !.status = 0]
            /\ pc' = [pc EXCEPT ![t] = "re_out"]
    /\ UNCHANGED << ring, polling, produced, lock, cfgVars, op, rfLocals,
                    delivered, ring0, yielded, faulted, grew, polls, pendingErr,
                    totalRead, lastErrEntry >>

(* lines 90-99: test the sticky status, fill in the error record *)
ReaderrBody(t) ==
    /\ pc[t] = "re_body"
    /\ unreported' = 0
    /\ IF NoErrorPending(cq.status)
       THEN /\ pc' = [pc EXCEPT ![t] = "re_err"]
            /\ UNCHANGED entry
       ELSE /\ entry' = [entry EXCEPT ![t] = ErrEntry(cq)]
            /\ pc' = [pc EXCEPT ![t] = "re_out"]
    /\ UNCHANGED << hwVars, lock, cfgVars, op, rfLocals, delivered, ring0,
                    yielded, faulted, grew, polls, pendingErr, totalRead,
                    lastErrEntry >>

(* lines 101-107: unlock, set err_data_size for API >= 1.5, return the size *)
ReaderrReturn(t) ==
    /\ pc[t] = "re_out"
    /\ lock' = NoThread
    /\ lastErrEntry' = WithErrDataSize(entry[t])
    /\ Leave(t)
    /\ UNCHANGED << hwVars, cfgVars, delivered, pendingErr, unreported, totalRead >>

(* lines 108-110: err: unlock, return -FI_EAGAIN *)
ReaderrAgain(t) ==
    /\ pc[t] = "re_err"
    /\ lock' = NoThread
    /\ Leave(t)
    /\ UNCHANGED << hwVars, cfgVars, delivered, pendingErr, unreported, totalRead,
                    lastErrEntry >>

Next ==
    \/ Produce
    \/ \E t \in Threads : CallReadfrom(t)
    \/ \E t \in Threads : CallReaderr(t)
    \/ \E t \in Threads : Lock(t)
    \/ \E t \in Threads : StartPoll(t)
    \/ \E t \in Threads : LoopStep(t)
    \/ \E t \in Threads : NextPoll(t)
    \/ \E t \in Threads : Finish(t)
    \/ \E t \in Threads : UnlockReturn(t)
    \/ \E t \in Threads : ReaderrBody(t)
    \/ \E t \in Threads : ReaderrReturn(t)
    \/ \E t \in Threads : ReaderrAgain(t)

Spec == Init /\ [][Next]_vars

(* A thread inside a call keeps running: the scheduler gives every thread   *)
(* the processor again and again.  Callers need not call, the hardware need *)
(* not post.  The spin lock promises nothing about who wins it.             *)
ThreadStep(t) ==
    \/ Lock(t)
    \/ StartPoll(t)
    \/ LoopStep(t)
    \/ NextPoll(t)
    \/ Finish(t)
    \/ UnlockReturn(t)
    \/ ReaderrBody(t)
    \/ ReaderrReturn(t)
    \/ ReaderrAgain(t)

(* Neither the lock nor the loop looks at the layout or the API version:    *)
(* the fair specification starts from one queue.                            *)
FairInit ==
    /\ Init
    /\ format = "FI_CQ_FORMAT_MSG"
    /\ api_ge_1_5

SpecFair ==
    FairInit /\ [][Next]_vars /\ \A t \in Threads : WF_vars(ThreadStep(t))

----------------------------------------------------------------------------
(* The formatters as functions of their input: cq->read_entry applied to     *)
(* one completion, for every layout, every opcode a work completion can     *)
(* carry, and every index of the buffer.                                    *)

(* a queue on which nothing has happened yet: every variable but the        *)
(* layout, the thread positions and the locals the formatter reads          *)
Untouched ==
    /\ ring = << >>
    /\ cq = NoWc
    /\ polling = FALSE
    /\ lock = NoThread
    /\ api_ge_1_5 = TRUE
    /\ produced = 0
    /\ op = [t \in Threads |-> "none"]
    /\ count = [t \in Threads |-> 0]
    /\ err = [t \in Threads |-> 0]
    /\ should_end_poll = [t \in Threads |-> FALSE]
    /\ buf = [t \in Threads |-> EmptyBuf]
    /\ src_addr_given = [t \in Threads |-> FALSE]
    /\ src_addr = [t \in Threads |-> EmptyAddrs]
    /\ entry = [t \in Threads |-> Unwritten]
    /\ delivered = << >>
    /\ ring0 = [t \in Threads |-> << >>]
    /\ yielded = [t \in Threads |-> << >>]
    /\ faulted = [t \in Threads |-> FALSE]
    /\ grew = [t \in Threads |-> FALSE]
    /\ polls = [t \in Threads |-> NoPolls]
    /\ pendingErr = NoErr
    /\ unreported = 0
    /\ totalRead = 0
    /\ lastErrEntry = Unwritten

(* enum ibv_wc_opcode has more members than the two the switch names *)
FormatOpcodes == {"IBV_WC_SEND", "IBV_WC_RECV", "IBV_WC_RDMA_READ"}

FormatInputs ==
    [wr_id : {1, 2}, status : {0}, opcode : FormatOpcodes, byte_len : {0, 64},
     slid : {1}, src_qp : {1}, imm_data : {0, 9}]

FormatInit ==
    /\ Untouched
    /\ format \in Formats
    /\ life = Constructed(format)
    /\ \E w \in FormatInputs :
          wc = [t \in Threads |-> IF t = "t1" THEN w ELSE NoWc]
    /\ \E i \in BufIndex :
          num_cqe = [t \in Threads |-> IF t = "t1" THEN i ELSE 0]
    /\ pc = [t \in Threads |-> IF t = "t1" THEN "fmt" ELSE "idle"]

(* lines 44-46: the default branch of the switch is reached.  The context   *)
(* formatter never calls efa_cq_wc_to_fi_flags.                             *)
AssertReached(f, opcode) ==
    /\ f # "FI_CQ_FORMAT_CONTEXT"
    /\ opcode \notin {"IBV_WC_SEND", "IBV_WC_RECV"}

fmtUnchanged ==
    << hwVars, lock, cfgVars, op, count, num_cqe, err, should_end_poll, wc,
       src_addr_given, src_addr, entry, histVars >>

(* cq->read_entry(&wc, num_cqe, buf) returns: no assertion on its way *)
FormatEntry(t) ==
    /\ pc[t] = "fmt"
    /\ ~AssertReached(format, wc[t].opcode)
    /\ buf' = [buf EXCEPT ![t] = read_entry(wc[t], num_cqe[t], @)]
    /\ pc' = [pc EXCEPT ![t] = "fmt_done"]
    /\ UNCHANGED fmtUnchanged

(* assert(0) of line 45 in a build with assertions: the process aborts,     *)
(* after lines 125 / 134 have stored op_context                             *)
FormatAssertAbort(t) ==
    /\ pc[t] = "fmt"
    /\ AssertReached(format, wc[t].opcode)
    /\ buf' = [buf EXCEPT ![t][num_cqe[t]] = [op_context |-> wc[t].wr_id]]
    /\ pc' = [pc EXCEPT ![t] = "fmt_abort"]
    /\ UNCHANGED fmtUnchanged

(* assert(0) of line 45 in a build with NDEBUG: the assertion is compiled   *)
(* out, line 46 returns 0 and the formatter completes the entry             *)
FormatAssertCompiledOut(t) ==
    /\ pc[t] = "fmt"
    /\ AssertReached(format, wc[t].opcode)
    /\ buf' = [buf EXCEPT ![t] = read_entry(wc[t], num_cqe[t], @)]
    /\ pc' = [pc EXCEPT ![t] = "fmt_done"]
    /\ UNCHANGED fmtUnchanged

FormatNext ==
    \/ \E t \in Threads : FormatEntry(t)
    \/ \E t \in Threads : FormatAssertAbort(t)
    \/ \E t \in Threads : FormatAssertCompiledOut(t)

SpecFormat == FormatInit /\ [][FormatNext]_vars

----------------------------------------------------------------------------
(* The life of a queue object: efa_cq_open (lines 279-368) step by step,    *)
(* with every acquisition free to fail, and efa_cq_close (lines 247-269).   *)
(* life.held lists the resources acquired, life.released the resources      *)
(* given back, both in the order it happened; life.failed names the step    *)
(* that failed.                                                             *)

RequestedFormats ==
    {"FI_CQ_FORMAT_UNSPEC", "FI_CQ_FORMAT_CONTEXT", "FI_CQ_FORMAT_MSG",
     "FI_CQ_FORMAT_DATA", "FI_CQ_FORMAT_TAGGED", "unknown"}

(* the arguments of efa_cq_open: attr->wait_obj, attr->format, attr->size *)
OpenRequests ==
    [pc : {"open"}, wait_obj : {"FI_WAIT_NONE", "FI_WAIT_FD"},
     format : RequestedFormats, size : {0, 16}, held : {<< >>},
     released : {<< >>}, published : {FALSE}, cqe : {0}, ret : {0},
     failed : {"none"}]

LifeInit ==
    /\ Untouched
    /\ format = "none"
    /\ life \in OpenRequests
    /\ pc = [t \in Threads |-> "idle"]
    /\ wc = [t \in Threads |-> NoWc]
    /\ num_cqe = [t \in Threads |-> 0]

lifeUnchanged ==
    << hwVars, lock, api_ge_1_5, pc, op, rfLocals, entry, histVars >>

(* variant: the ring is created with the size as given *)
CqeFor_as_given(size) == size

(* line 313: attr->size ? attr->size : EFA_DEF_CQ_SIZE *)
CqeFor(size) == IF size # 0 THEN size ELSE EFA_DEF_CQ_SIZE

(* variant: a failed pool creation skips the destruction of the ring *)
ErrLabel_leaks_ring(step) ==
    CASE step = "ofi_cq_init" -> "err_free_cq"
      [] step = "ibv_create_cq_ex" -> "err_free_util_cq"
      [] step = "ofi_bufpool_create" -> "err_free_util_cq"
      [] step = "format" -> "err_destroy_pool"

(* lines 307, 319, 326, 346: the goto taken when a step of open fails *)
ErrLabel(step) ==
    CASE step = "ofi_cq_init" -> "err_free_cq"
      [] step = "ibv_create_cq_ex" -> "err_free_util_cq"
      [] step = "ofi_bufpool_create" -> "err_destroy_cq"
      [] step = "format" -> "err_destroy_pool"

(* variant: close carries on whatever the destruction of the ring returned *)
CloseAborts_never(ret) == FALSE

(* lines 259 and 263: if (ret) return ret *)
CloseAborts(ret) == ret # 0

(* lines 329-347: the layout the switch binds, "none" for the tagged and    *)
(* the default case                                                         *)
BoundFormat(f) ==
    CASE f \in {"FI_CQ_FORMAT_UNSPEC", "FI_CQ_FORMAT_CONTEXT"} ->
            "FI_CQ_FORMAT_CONTEXT"
      [] f = "FI_CQ_FORMAT_MSG" -> "FI_CQ_FORMAT_MSG"
      [] f = "FI_CQ_FORMAT_DATA" -> "FI_CQ_FORMAT_DATA"
      [] OTHER -> "none"

(* lines 296-297 *)
OpenWaitObj ==
    /\ life.pc = "open"
    /\ IF life.wait_obj # "FI_WAIT_NONE"
       THEN life' = [life EXCEPT !.ret = -FI_ENOSYS, !.failed = "wait_obj",
                                 !.pc = "open_ret"]
       ELSE life' = [life EXCEPT !.pc = "open_calloc"]
    /\ UNCHANGED << format, lifeUnchanged >>

(* lines 299-301 *)
OpenCalloc ==
    /\ life.pc = "open_calloc"
    /\ \E ok \in BOOLEAN :
          IF ok
          THEN life' = [life EXCEPT !.held = Append(@, "cq"), !.pc = "open_cq_init"]
          ELSE life' = [life EXCEPT !.ret = -FI_ENOMEM, !.failed = "calloc",
                                    !.pc = "open_ret"]
    /\ UNCHANGED << format, lifeUnchanged >>

(* lines 303-308 *)
OpenCqInit ==
    /\ life.pc = "open_cq_init"
    /\ \E r \in {0, -FI_ENOMEM, -FI_EINVAL} :
          IF r = 0
          THEN life' = [life EXCEPT !.held = Append(@, "util_cq"),
                                    !.pc = "open_create_cq"]
          ELSE life' = [life EXCEPT !.ret = r, !.failed = "ofi_cq_init",
                                    !.pc = ErrLabel("ofi_cq_init")]
    /\ UNCHANGED << format, lifeUnchanged >>

(* lines 313-320 *)
OpenCreateCq ==
    /\ life.pc = "open_create_cq"
    /\ \E ok \in BOOLEAN :
          IF ok
          THEN life' = [life EXCEPT !.cqe = CqeFor(life.size),
                                    !.held = Append(@, "ibv_cq"),
                                    !.pc = "open_bufpool"]
          ELSE life' = [life EXCEPT !.cqe = CqeFor(life.size),
                                    !.ret = -FI_EINVAL,
                                    !.failed = "ibv_create_cq_ex",
                                    !.pc = ErrLabel("ibv_create_cq_ex")]
    /\ UNCHANGED << format, lifeUnchanged >>

(* lines 322-327 *)
OpenBufpool ==
    /\ life.pc = "open_bufpool"
    /\ \E r \in {0, -FI_ENOMEM} :
          IF r = 0
          THEN life' = [life EXCEPT !.held = Append(@, "wce_pool"),
                                    !.pc = "open_format"]
          ELSE life' = [life EXCEPT !.ret = r, !.failed = "ofi_bufpool_create",
                                    !.pc = ErrLabel("ofi_bufpool_create")]
    /\ UNCHANGED << format, lifeUnchanged >>

(* lines 329-347 *)
OpenFormat ==
    /\ life.pc = "open_format"
    /\ IF BoundFormat(life.format) # "none"
       THEN /\ format' = BoundFormat(life.format)
            /\ life' = [life EXCEPT !.pc = "open_publish"]
       ELSE /\ life' = [life EXCEPT !.ret = -FI_ENOSYS, !.failed = "format",
                                    !.pc = ErrLabel("format")]
            /\ UNCHANGED format
    /\ UNCHANGED lifeUnchanged

(* lines 349-357 *)
OpenPublish ==
    /\ life.pc = "open_publish"
    /\ life' = [life EXCEPT !.held = Append(@, "lock"), !.published = TRUE,
                            !.ret = 0, !.pc = "opened"]
    /\ UNCHANGED << format, lifeUnchanged >>

(* lines 359-360 *)
ErrDestroyPool ==
    /\ life.pc = "err_destroy_pool"
    /\ life' = [life EXCEPT !.released = Append(@, "wce_pool"),
                            !.pc = "err_destroy_cq"]
    /\ UNCHANGED << format, lifeUnchanged >>

(* lines 361-362 *)
ErrDestroyCq ==
    /\ life.pc = "err_destroy_cq"
    /\ life' = [life EXCEPT !.released = Append(@, "ibv_cq"),
                            !.pc = "err_free_util_cq"]
    /\ UNCHANGED << format, lifeUnchanged >>

(* lines 363-364 *)
ErrFreeUtilCq ==
    /\ life.pc = "err_free_util_cq"
    /\ life' = [life EXCEPT !.released = Append(@, "util_cq"),
                            !.pc = "err_free_cq"]
    /\ UNCHANGED << format, lifeUnchanged >>

(* lines 365-367 *)
ErrFreeCq ==
    /\ life.pc = "err_free_cq"
    /\ life' = [life EXCEPT !.released = Append(@, "cq"), !.pc = "open_ret"]
    /\ UNCHANGED << format, lifeUnchanged >>

(* line 254 *)
CloseBufpool ==
    /\ life.pc = "opened"
    /\ life' = [life EXCEPT !.released = Append(@, "wce_pool"),
                            !.pc = "close_spin"]
    /\ UNCHANGED << format, lifeUnchanged >>

(* line 256 *)
CloseSpin ==
    /\ life.pc = "close_spin"
    /\ life' = [life EXCEPT !.released = Append(@, "lock"), !.pc = "close_ibv"]
    /\ UNCHANGED << format, lifeUnchanged >>

(* lines 258-260: ret = -ibv_destroy_cq(...); if (ret) return ret *)
CloseDestroyCq ==
    /\ life.pc = "close_ibv"
    /\ \E e \in {0, EBUSY} :
          IF CloseAborts(-e)
          THEN life' = [life EXCEPT !.ret = -e, !.failed = "ibv_destroy_cq",
                                    !.pc = "close_ret"]
          ELSE life' = [life EXCEPT
                           !.ret = -e,
                           !.failed = IF e = 0 THEN @ ELSE "ibv_destroy_cq",
                           !.released = IF e = 0 THEN Append(@, "ibv_cq") ELSE @,
                           !.pc = "close_cleanup"]
    /\ UNCHANGED << format, lifeUnchanged >>

(* lines 262-264: ret = ofi_cq_cleanup(...); if (ret) return ret *)
CloseCleanup ==
    /\ life.pc = "close_cleanup"
    /\ \E r \in {0, -EBUSY} :
          IF r # 0
          THEN life' = [life EXCEPT !.ret = r, !.failed = "ofi_cq_cleanup",
                                    !.pc = "close_ret"]
          ELSE life' = [life EXCEPT !.released = Append(@, "util_cq"),
                                    !.pc = "close_free"]
    /\ UNCHANGED << format, lifeUnchanged >>

(* lines 266-268 *)
CloseFree ==
    /\ life.pc = "close_free"
    /\ life' = [life EXCEPT !.released = Append(@, "cq"), !.ret = 0,
                            !.pc = "close_ret"]
    /\ UNCHANGED << format, lifeUnchanged >>

LifeNext ==
    \/ OpenWaitObj
    \/ OpenCalloc
    \/ OpenCqInit
    \/ OpenCreateCq
    \/ OpenBufpool
    \/ OpenFormat
    \/ OpenPublish
    \/ ErrDestroyPool
    \/ ErrDestroyCq
    \/ ErrFreeUtilCq
    \/ ErrFreeCq
    \/ CloseBufpool
    \/ CloseSpin
    \/ CloseDestroyCq
    \/ CloseCleanup
    \/ CloseFree

SpecLife == LifeInit /\ [][LifeNext]_vars

----------------------------------------------------------------------------
(* Vocabulary of the properties.  A call to efa_cq_readfrom is complete,   *)
(* with its return value fixed, once it stands before the unlock of line   *)
(* 209; a call to efa_cq_readerr once it stands before line 101 or 109.    *)

RfDone(t) == pc[t] = "rf_unlock"
ReDone(t) == pc[t] \in {"re_out", "re_err"}
Written(t) == {i \in BufIndex : buf[t][i] # Unwritten}
AllGood(r) == \A i \in 1 .. Len(r) : r[i].status = 0
(* completions 0..k-1 of r are good and completion k is in error state *)
ErrAt(r, k) ==
    /\ Len(r) > k
    /\ r[k + 1].status # 0
    /\ \A i \in 1 .. k : r[i].status = 0
(* the call saw a working ring whose content did not change under it *)
Quiet(t) == ~faulted[t] /\ ~grew[t]
InCritical(t) ==
    pc[t] \in {"rf_start", "rf_loop", "rf_next", "rf_finish", "rf_unlock",
               "re_body", "re_out", "re_err"}
Waiting(t) == pc[t] \in {"rf_lock", "re_lock"}

(* C1: a read with count = C on a ring of exactly N ready, good completions *)
(* (no ring fault, nothing posted during the call) writes exactly the       *)
(* entries 0..min(N,C)-1 and, when min(N,C) > 0, returns min(N,C).          *)
C1_ReadReturnsMin ==
    \A t \in Threads :
        (RfDone(t) /\ AllGood(ring0[t]) /\ Quiet(t)) =>
            LET n == Min(Len(ring0[t]), count[t])
            IN  /\ Written(t) = 0 .. (n - 1)
                /\ n > 0 => readfrom_ret(t) = n

C1_Witness ==
    \E t \in Threads :
        /\ RfDone(t) /\ AllGood(ring0[t]) /\ Quiet(t)
        /\ Len(ring0[t]) = 2 /\ count[t] = 1
        /\ readfrom_ret(t) = 1

(* C2: a read that finds the ring empty (ibv_start_poll returns ENOENT)     *)
(* returns -FI_EAGAIN for every count, 0 included.                          *)
C2_EmptyRingTryAgain ==
    \A t \in Threads :
        (RfDone(t) /\ ring0[t] = << >> /\ ~faulted[t]) =>
            readfrom_ret(t) = -FI_EAGAIN

C2_Witness ==
    \E t \in Threads :
        /\ RfDone(t) /\ ring0[t] = << >> /\ ~faulted[t]
        /\ count[t] = 0
        /\ readfrom_ret(t) = -FI_EAGAIN

(* C3: if completions 0..k-1 are good and completion k < count is in error  *)
(* state, the read returns k (-FI_EAVAIL when k = 0), has written exactly    *)
(* the entries 0..k-1, one per good completion, and not the errored one; a   *)
(* readerr that runs with no read started in between succeeds and reports    *)
(* the errored completion's wr_id as op_context and its status as           *)
(* prov_errno.                                                              *)
C3_ErrorAtK ==
    /\ \A t \in Threads : \A k \in 0 .. MaxCount :
          (RfDone(t) /\ ~faulted[t] /\ k < count[t] /\ ErrAt(ring0[t], k)) =>
              /\ readfrom_ret(t) = (IF k = 0 THEN -FI_EAVAIL ELSE k)
              /\ Written(t) = 0 .. (k - 1)
              /\ \A i \in 0 .. (k - 1) :
                    buf[t][i].op_context = ring0[t][i + 1].wr_id
              /\ pendingErr = [wr_id |-> ring0[t][k + 1].wr_id,
                               status |-> ring0[t][k + 1].status,
                               after |-> k]
    /\ \A t \in Threads :
          (ReDone(t) /\ pendingErr # NoErr) =>
              /\ pc[t] = "re_out"
              /\ readerr_ret(t) = SizeofErrEntry
              /\ entry[t].op_context = pendingErr.wr_id
              /\ entry[t].prov_errno = pendingErr.status

C3_Witness ==
    \E t \in Threads :
        /\ pc[t] = "re_out"
        /\ pendingErr.after = 1
        /\ pendingErr.wr_id = 2
        /\ entry[t].op_context = 2
        /\ entry[t].prov_errno = IBV_WC_GENERAL_ERR

(* C4: a readerr that finds the sticky status zero returns -FI_EAGAIN and   *)
(* leaves the caller's error record unwritten.                              *)
C4_NoErrorTryAgain ==
    \A t \in Threads :
        (ReDone(t) /\ cq.status = 0) =>
            /\ pc[t] = "re_err"
            /\ readerr_ret(t) = -FI_EAGAIN
            /\ entry[t] = Unwritten

C4_Witness ==
    \E t \in Threads :
        /\ pc[t] = "re_err" /\ cq.status = 0 /\ cq.wr_id # 0
        /\ entry[t] = Unwritten

(* C5: at most one thread is inside a region that touches the ring, and     *)
(* every such thread holds the queue lock; a poll session is open only      *)
(* while the lock is held.                                                  *)
C5_MutualExclusion ==
    /\ \A t \in Threads : InCritical(t) => lock = t
    /\ \A t, u \in Threads : (InCritical(t) /\ InCritical(u)) => t = u
    /\ polling => lock # NoThread

C5_Witness ==
    \E t, u \in Threads :
        /\ t # u
        /\ pc[t] = "rf_next" /\ lock = t
        /\ Waiting(u)

(* C6: with two threads reading the same queue, each call's buffer holds    *)
(* exactly the entries that call formatted, no completion is written to the *)
(* buffers of two calls (or twice at all), and the counts returned so far   *)
(* plus the entries of the calls in progress never exceed the number of     *)
(* completions the ring has held.                                           *)
C6_ConcurrentReadsDisjoint ==
    /\ \A t \in Threads : Cardinality(Written(t)) = num_cqe[t]
    /\ \A t, u \in Threads : \A i \in Written(t) : \A j \in Written(u) :
          buf[t][i].op_context = buf[u][j].op_context => (t = u /\ i = j)
    /\ \A i, j \in 1 .. Len(delivered) :
          delivered[i].wr_id = delivered[j].wr_id => i = j
    /\ totalRead + num_cqe["t1"] + num_cqe["t2"] <= produced

C6_Witness ==
    \E t, u \in Threads :
        /\ t # u
        /\ op[t] = "readfrom" /\ op[u] = "readfrom"
        /\ pc[u] = "rf_lock"
        /\ num_cqe[t] = 1
        /\ totalRead = 1

(* C7: the entries a read writes are contiguous from index 0 and below its  *)
(* count, entry i is the i-th completion the ring yielded during the call,  *)
(* a call that returns n > 0 has written exactly 0..n-1, and over all calls *)
(* the delivered completions follow the order in which the ring produced    *)
(* them (work-request ids are handed out in production order).              *)
C7_ContiguousInOrder ==
    /\ \A t \in Threads :
          /\ Written(t) = 0 .. (num_cqe[t] - 1)
          /\ num_cqe[t] <= count[t]
          /\ num_cqe[t] <= Len(yielded[t])
          /\ \A i \in Written(t) : buf[t][i].op_context = yielded[t][i + 1]
          /\ (RfDone(t) /\ readfrom_ret(t) > 0) =>
                Written(t) = 0 .. (readfrom_ret(t) - 1)
    /\ \A i, j \in 1 .. Len(delivered) :
          i < j => delivered[i].wr_id < delivered[j].wr_id

C7_Witness ==
    \E t \in Threads :
        /\ RfDone(t) /\ readfrom_ret(t) = 1
        /\ Len(delivered) = 2
        /\ buf[t][0].op_context = 2

(* C8: a read with count 0 on a ring holding N >= 1 ready completions       *)
(* returns 0 and consumes nothing: the completions that were ready are      *)
(* still the oldest ones in the ring for the next read.                     *)
C8_ZeroReadConsumesNothing ==
    \A t \in Threads :
        (RfDone(t) /\ count[t] = 0 /\ Len(ring0[t]) >= 1 /\ ~faulted[t]) =>
            /\ readfrom_ret(t) = 0
            /\ yielded[t] = << >>
            /\ Len(ring) >= Len(ring0[t])
            /\ SubSeq(ring, 1, Len(ring0[t])) = ring0[t]

(* C9: a read that wrote at least one entry returns the count of entries,   *)
(* whatever stopped the loop; it returns a negative code only when it wrote *)
(* none.                                                                    *)
C9_PartialSuccess ==
    \A t \in Threads :
        RfDone(t) =>
            /\ num_cqe[t] > 0 => readfrom_ret(t) = num_cqe[t]
            /\ readfrom_ret(t) < 0 => (num_cqe[t] = 0 /\ Written(t) = {})

C9_Witness ==
    \E t \in Threads :
        /\ RfDone(t)
        /\ err[t] = -FI_EAVAIL
        /\ num_cqe[t] = 1
        /\ readfrom_ret(t) = 1

C9_WitnessFault ==
    \E t \in Threads :
        /\ RfDone(t)
        /\ err[t] = -EINVAL
        /\ num_cqe[t] = 1
        /\ readfrom_ret(t) = 1

(* C10, as claimed: while a read has stopped at an errored completion and   *)
(* readerr has not been called since, no read delivers a completion that    *)
(* follows the errored one.                                                 *)
C10_ReadsBlockedUntilReaderr ==
    unreported # 0 =>
        \A i \in 1 .. Len(delivered) : delivered[i].wr_id < unreported

(* C10, amended: the errored completion a read stopped at is consumed from  *)
(* the ring and is never written to an output buffer by any read; no        *)
(* completion in error state is ever delivered.                             *)
C10_ErroredNeverDelivered ==
    /\ \A i \in 1 .. Len(delivered) : delivered[i].status = 0
    /\ unreported # 0 =>
          /\ \A i \in 1 .. Len(delivered) : delivered[i].wr_id # unreported
          /\ \A i \in 1 .. Len(ring) : ring[i].wr_id > unreported
          /\ \A t \in Threads : \A i \in Written(t) :
                buf[t][i].op_context # unreported

(* a read has delivered the completion after the errored one and readerr    *)
(* has not been called *)
C10_Witness ==
    /\ unreported = 1
    /\ \E i \in 1 .. Len(delivered) : delivered[i].wr_id = 2

(* a step of efa_cq_readerr by some thread *)
ReaderrStep ==
    \E t \in Threads :
        /\ pc[t] \in {"re_lock", "re_body", "re_out", "re_err"}
        /\ pc'[t] # pc[t]

(* C11: efa_cq_readerr only reads the ring: none of its steps changes the   *)
(* sticky fields (status, wr_id, opcode), the poll session or the           *)
(* unconsumed completions, and a readerr that runs after a successful       *)
(* readerr, with no read in between, fills in the same record.              *)
C11_ReaderrPure ==
    /\ [][ReaderrStep => (cq' = cq /\ ring' = ring /\ polling' = polling)]_vars
    /\ [](\A t \in Threads :
            (ReDone(t) /\ lastErrEntry # Unwritten) =>
                /\ pc[t] = "re_out"
                /\ WithErrDataSize(entry[t]) = lastErrEntry)

C11_Witness ==
    \E t \in Threads :
        /\ pc[t] = "re_out"
        /\ lastErrEntry # Unwritten
        /\ WithErrDataSize(entry[t]) = lastErrEntry
        /\ ring # << >>

(* C12, as claimed: after a successful readerr the error is cleared, so a   *)
(* second readerr with no read in between returns -FI_EAGAIN.               *)
C12_SecondReaderrTryAgain ==
    \A t \in Threads :
        (ReDone(t) /\ lastErrEntry # Unwritten) =>
            /\ pc[t] = "re_err"
            /\ readerr_ret(t) = -FI_EAGAIN

(* C12, amended: a successful readerr does not clear the error: the sticky  *)
(* status stays non-zero and a second readerr with no read in between       *)
(* succeeds again and reports the same work request.                        *)
C12_ErrorStaysReadable ==
    /\ lastErrEntry # Unwritten => cq.status # 0
    /\ \A t \in Threads :
          (ReDone(t) /\ lastErrEntry # Unwritten) =>
              /\ readerr_ret(t) = SizeofErrEntry
              /\ entry[t].op_context = lastErrEntry.op_context
              /\ entry[t].prov_errno = cq.status

C12_Witness ==
    \E t \in Threads :
        /\ ReDone(t)
        /\ lastErrEntry # Unwritten
        /\ readerr_ret(t) = SizeofErrEntry
        /\ entry[t].op_context = 1

(* C17: every call of efa_cq_readfrom calls ibv_start_poll exactly once,    *)
(* whatever its count; it calls ibv_end_poll exactly once if that start     *)
(* returned 0 and never otherwise, whatever ended the loop; ibv_next_poll   *)
(* is called only inside an open session; and no session is open while the  *)
(* lock is free.                                                            *)
C17_PollSessionBracket ==
    /\ \A t \in Threads :
          /\ pc[t] \in {"rf_loop", "rf_next", "rf_finish", "rf_unlock"} =>
                polls[t].starts = 1
          /\ pc[t] \in {"idle", "rf_lock", "rf_start"} => polls[t].starts = 0
          /\ RfDone(t) => polls[t].ends = (IF polls[t].started THEN 1 ELSE 0)
          /\ ~RfDone(t) => polls[t].ends = 0
          /\ pc[t] = "rf_next" => (polling /\ polls[t].started)
    /\ lock = NoThread => ~polling

C17_Witness ==
    \E t \in Threads :
        /\ RfDone(t)
        /\ count[t] = 0
        /\ polls[t].starts = 1 /\ polls[t].started /\ polls[t].ends = 1
        /\ ~polling

C17_WitnessFault ==
    \E t \in Threads :
        /\ RfDone(t)
        /\ faulted[t]
        /\ num_cqe[t] = 1
        /\ polls[t].starts = 1 /\ polls[t].started /\ polls[t].ends = 1

(* C19: no completion is lost across partial reads: every completion a      *)
(* read has taken off the ring (the cursor moved onto it and the session    *)
(* ended) has been written to that call's buffer; a read that stops because *)
(* its count is reached does not consume the completion at position count.  *)
(* Stated for reads with count >= 1; the read with count 0 is C8.           *)
C19_NothingLost ==
    \A t \in Threads :
        (RfDone(t) /\ count[t] >= 1 /\ AllGood(ring0[t]) /\ Quiet(t)) =>
            /\ Len(yielded[t]) = num_cqe[t]
            /\ \A i \in 1 .. Len(yielded[t]) :
                  \E j \in Written(t) : buf[t][j].op_context = yielded[t][i]

(* what the translation of lines 146-156 is documented to do with the code  *)
(* the loop ended with *)
TranslatedAsDocumented(t) ==
    /\ err[t] <= 0
    /\ polls[t].raw = ENOENT => err[t] = -FI_EAGAIN
    /\ (polls[t].raw > 0 /\ polls[t].raw # ENOENT) => err[t] = -polls[t].raw
    /\ polls[t].raw <= 0 => err[t] = polls[t].raw
StartFaulted(t) == polls[t].starts = 1 /\ polls[t].start_ret \notin {0, ENOENT}

C18_TranslationNonPositive ==
    \A t \in Threads :
        RfDone(t) =>
            /\ TranslatedAsDocumented(t)
            /\ readfrom_ret(t) > 0 => readfrom_ret(t) \in 1 .. count[t]
            /\ StartFaulted(t) =>
                  /\ readfrom_ret(t) = -polls[t].start_ret
                  /\ (readfrom_ret(t) = -FI_EAGAIN) = (polls[t].start_ret = EAGAIN)

C18_Witness ==
    \E t \in Threads :
        /\ RfDone(t)
        /\ StartFaulted(t)
        /\ polls[t].start_ret = EINVAL
        /\ ring0[t] # << >>
        /\ readfrom_ret(t) = -EINVAL

(* C14: when an address buffer is supplied and the read has written n       *)
(* entries, src_addr[i] for every i in 0..n-1 is the lookup result for      *)
(* entry i's (slid, src_qp), FI_ADDR_NOTAVAIL for an unknown peer, and the  *)
(* read returns n; the lookup was made exactly once per written entry (so   *)
(* not for an errored completion); with no address buffer no lookup is made *)
(* and no address is written.                                               *)
C14_SourceAddresses ==
    \A t \in Threads :
        RfDone(t) =>
            /\ Len(polls[t].peers) = num_cqe[t]
            /\ src_addr_given[t] =>
                  /\ \A i \in Written(t) :
                        /\ src_addr[t][i] =
                              efa_av_reverse_lookup_dgram(polls[t].peers[i + 1][1],
                                                          polls[t].peers[i + 1][2])
                        /\ polls[t].peers[i + 1] \notin AvPeers =>
                              src_addr[t][i] = "FI_ADDR_NOTAVAIL"
                  /\ \A i \in BufIndex \ Written(t) : src_addr[t][i] = "unwritten"
                  /\ polls[t].lookups = num_cqe[t]
                  /\ num_cqe[t] > 0 => readfrom_ret(t) = num_cqe[t]
            /\ ~src_addr_given[t] =>
                  /\ polls[t].lookups = 0
                  /\ src_addr[t] = EmptyAddrs

C14_Witness ==
    \E t \in Threads :
        /\ RfDone(t)
        /\ src_addr_given[t]
        /\ num_cqe[t] = 2
        /\ src_addr[t][0] = "FI_ADDR_NOTAVAIL"
        /\ src_addr[t][1] = "fi_addr_of_known_peer"
        /\ readfrom_ret(t) = 2

(* the entry the claim describes for a Send or Receive completion w under   *)
(* layout f                                                                 *)
DocumentedEntry(f, w) ==
    LET fl == IF w.opcode = "IBV_WC_SEND" THEN {"FI_SEND", "FI_MSG"}
              ELSE {"FI_RECV", "FI_MSG"}
    IN  CASE f = "FI_CQ_FORMAT_CONTEXT" -> [op_context |-> w.wr_id]
          [] f = "FI_CQ_FORMAT_MSG" ->
                [op_context |-> w.wr_id, flags |-> fl, len |-> w.byte_len]
          [] f = "FI_CQ_FORMAT_DATA" ->
                [op_context |-> w.wr_id, flags |-> fl, len |-> w.byte_len,
                 data |-> 0]
FormatEnded(t) == pc[t] \in {"fmt_done", "fmt_abort"}

(* C13, as claimed, for the layouts that look at the opcode: the entry      *)
(* written for a Send or Receive completion is the documented function of   *)
(* layout and completion (data = 0 whatever the immediate data), at the     *)
(* index given and nowhere else; any other opcode trips the assertion       *)
(* instead of producing an entry.                                           *)
C13_OtherOpcodeAsserts ==
    \A t \in Threads :
        (FormatEnded(t) /\ format # "FI_CQ_FORMAT_CONTEXT") =>
            IF wc[t].opcode \in {"IBV_WC_SEND", "IBV_WC_RECV"}
            THEN /\ pc[t] = "fmt_done"
                 /\ buf[t][num_cqe[t]] = DocumentedEntry(format, wc[t])
                 /\ \A j \in BufIndex \ {num_cqe[t]} : buf[t][j] = Unwritten
            ELSE pc[t] = "fmt_abort"

(* the part of C13 that every build keeps: Send and Receive completions    *)
(* under all three layouts, and any opcode under the context layout         *)
C13_ValidOpcodeLayout ==
    \A t \in Threads :
        (FormatEnded(t) /\ ~AssertReached(format, wc[t].opcode)) =>
            /\ pc[t] = "fmt_done"
            /\ buf[t][num_cqe[t]] =
                  IF format = "FI_CQ_FORMAT_CONTEXT" THEN [op_context |-> wc[t].wr_id]
                  ELSE DocumentedEntry(format, wc[t])
            /\ \A j \in BufIndex \ {num_cqe[t]} : buf[t][j] = Unwritten

RECURSIVE Reverse(_)
Reverse(q) == IF q = << >> THEN << >> ELSE Append(Reverse(Tail(q)), Head(q))
IsPrefix(p, q) == Len(p) <= Len(q) /\ \A i \in 1 .. Len(p) : p[i] = q[i]
OpenFailed == life.pc = "open_ret"
InOpen ==
    life.pc \notin {"opened", "close_spin", "close_ibv", "close_cleanup",
                    "close_free", "close_ret"}

(* C15: efa_cq_open returns -FI_ENOSYS for a wait mode other than           *)
(* FI_WAIT_NONE, with nothing acquired; it returns -FI_ENOSYS for the       *)
(* tagged or an unknown layout once its four acquisitions have succeeded,   *)
(* and never opens such a queue; a size of 0 creates the ring with          *)
(* EFA_DEF_CQ_SIZE; and on every failing path what was acquired (queue      *)
(* memory, util CQ, ring, pool) is released exactly once, in reverse order  *)
(* of acquisition, and no handle is published.                              *)
C15_OpenRejectsAndCleansUp ==
    /\ (life.wait_obj # "FI_WAIT_NONE" /\ life.pc # "open") =>
          /\ OpenFailed
          /\ life.ret = -FI_ENOSYS
          /\ life.held = << >> /\ life.released = << >>
    /\ life.format \in {"FI_CQ_FORMAT_TAGGED", "unknown"} =>
          /\ ~life.published
          /\ (OpenFailed /\ Len(life.held) = 4) => life.ret = -FI_ENOSYS
    /\ "ibv_cq" \in {life.held[i] : i \in 1 .. Len(life.held)} =>
          life.cqe = IF life.size = 0 THEN EFA_DEF_CQ_SIZE ELSE life.size
    /\ InOpen =>
          /\ IsPrefix(life.released, Reverse(life.held))
          /\ life.published = FALSE
    /\ OpenFailed =>
          /\ life.ret < 0
          /\ life.released = Reverse(life.held)
          /\ format = "none"

C15_Witness ==
    /\ OpenFailed
    /\ life.failed = "format"
    /\ life.size = 0
    /\ life.cqe = EFA_DEF_CQ_SIZE
    /\ life.released = << "wce_pool", "ibv_cq", "util_cq", "cq" >>
    /\ life.ret = -FI_ENOSYS

CloseOrder == << "wce_pool", "lock", "ibv_cq", "util_cq", "cq" >>

(* C16: efa_cq_close destroys the pool, then the lock, then the ring, and   *)
(* frees the queue object last (after ofi_cq_cleanup); if the destruction   *)
(* of the ring fails, close returns that failure at once: pool and lock are *)
(* destroyed, the ring and the queue object are not released.               *)
C16_CloseOrder ==
    ~InOpen =>
        /\ IsPrefix(life.released, CloseOrder)
        /\ life.failed = "ibv_destroy_cq" =>
              /\ life.pc = "close_ret"
              /\ life.ret = -EBUSY
              /\ life.released = << "wce_pool", "lock" >>
        /\ (life.pc = "close_ret" /\ life.failed = "none") =>
              /\ life.ret = 0
              /\ life.released = CloseOrder

C16_Witness ==
    /\ life.pc = "close_ret"
    /\ life.failed = "ibv_destroy_cq"
    /\ life.ret = -EBUSY
    /\ life.released = << "wce_pool", "lock" >>

(* what C20 says of every state and step: the lock is held exactly by a     *)
(* thread between its lock and its return, the loop body has run at most    *)
(* count times, a call returns only by the step that releases the lock, and *)
(* the lock is released only by the return of its holder                    *)
LockDiscipline ==
    \A t \in Threads :
        /\ InCritical(t) <=> lock = t
        /\ polls[t].iters <= count[t]
        /\ num_cqe[t] <= polls[t].iters
ReleasedOncePerCall ==
    \A t \in Threads :
        /\ (pc[t] # "idle" /\ pc'[t] = "idle") => (lock = t /\ lock' = NoThread)
        /\ (lock = t /\ lock' # t) =>
              (pc[t] \in {"rf_unlock", "re_out", "re_err"} /\ pc'[t] = "idle"
               /\ lock' = NoThread)
(* the holder of the lock gets to its return: with ReleasedOncePerCall, the  *)
(* lock falls free only by the return of the call that held it              *)
CallsReturn == (lock # NoThread) ~> (lock = NoThread)

(* C20, as claimed: every call terminates and releases the lock exactly     *)
(* once on every path, the loop body runs at most count times, the lock is  *)
(* never held after a return, and under fair scheduling every thread        *)
(* waiting for the lock eventually acquires it.                             *)
C20_EveryWaiterAcquires ==
    /\ []LockDiscipline
    /\ [][ReleasedOncePerCall]_vars
    /\ CallsReturn
    /\ \A t \in Threads : Waiting(t) ~> InCritical(t)

(* C20, amended: as claimed, except that under fair scheduling every call   *)
(* that holds the lock returns and releases it and, while a thread waits,   *)
(* a free lock is taken again by some thread (no deadlock); which waiter    *)
(* wins it the spin lock does not say.                                      *)
C20_CallsTerminateNoDeadlock ==
    /\ []LockDiscipline
    /\ [][ReleasedOncePerCall]_vars
    /\ CallsReturn
    /\ ((\E t \in Threads : Waiting(t)) /\ lock = NoThread) ~> (lock # NoThread)

C20_Witness ==
    \E t, u \in Threads :
        /\ Waiting(t)
        /\ pc[u] = "rf_unlock"
        /\ count[u] = 2
        /\ polls[u].iters = 2
        /\ num_cqe[u] = 1
        /\ readfrom_ret(u) = 1

====
